---------------------------- MODULE Spec2Model ----------------------------
(***************************************************************************)
(* Model of src/js/i18n.js: the client-side translator of a static site.   *)
(*                                                                         *)
(* JavaScript strings that the code takes apart (translation keys, the     *)
(* location path) are sequences of one-character strings, so that          *)
(* String.split and String.replace are computed, not assumed.  Strings     *)
(* that the code only compares (language codes) are TLA+ strings.          *)
(*                                                                         *)
(* JavaScript values met while resolving a key are one-field records:      *)
(*   [u |-> TRUE]   undefined                                              *)
(*   [s |-> chars]  a string                                               *)
(*   [n |-> k]      a number (the length of a string)                      *)
(*   [o |-> f]      an object, f a function from property names to values  *)
(***************************************************************************)
EXTENDS Integers, Sequences, FiniteSets, TLC

VARIABLES
    currentLang,   \* i18n.js:6   let currentLang
    translations,  \* i18n.js:5   let translations (an object's property map)
    storage,       \* localStorage item 'lang': <<>> absent, <<v>> present
    locales,       \* the server's locales/<lang>.json, per language
    inflight,      \* fetches issued and not yet settled
    switcher,      \* the .language-switcher: "none" (no footer), "footer" (a
                   \* footer without one), "created" (by init), "existing"
    active,        \* data-lang of the .lang-btn buttons carrying class active
    dom,           \* the document: lang, title, meta description, elements
    initPc,        \* "idle" | "loading" | "done": progress of init()
    calls,         \* number of changeLanguage invocations so far
    nFetch,        \* number of fetch() calls so far
    nWrites,       \* number of localStorage.setItem calls so far
    nScroll,       \* number of window.scrollTo calls so far
    nRender,       \* number of translatePage runs so far
    lastChange,    \* fetch id of the latest changeLanguage that passed the guard
    ev,            \* the step that produced the current state
    anyFail,       \* some fetch has failed so far
    installed,     \* languages whose mapping has been assigned to translations
    uncaught,      \* an exception escaped an async function (no step sets
                   \* it: the catch of loadTranslations covers its whole
                   \* body, and translatePage throws only on a null mapping,
                   \* which a locale file holding a JSON object never gives)
    earlyCall,     \* changeLanguage was called before init ran
    hist,          \* round trip: the mappings rendered so far, in order
    tKey,          \* lookup: argument of the last window.i18n.t call
    tResult        \* lookup: its result

vars == <<currentLang, translations, storage, locales, inflight, switcher,
          active, dom, initPc, calls, nFetch, nWrites, nScroll, nRender,
          lastChange, ev, anyFail, installed, uncaught, earlyCall, hist, tKey,
          tResult>>

-----------------------------------------------------------------------------
(* Bounds of the model.                                                    *)

\* changeLanguage invocations explored in one behaviour
MaxCalls == 3

\* mappings rendered in one round-trip behaviour
MaxLoads == 3

-----------------------------------------------------------------------------
(* JavaScript values and strings.                                          *)

Undefined == [u |-> TRUE]

Str(chars) == [s |-> chars]

Num(k) == [n |-> k]

Obj(f) == [o |-> f]

IsStr(v) == DOMAIN v = {"s"}

IsNum(v) == DOMAIN v = {"n"}

IsObj(v) == DOMAIN v = {"o"}

\* ToBoolean: undefined, "" and 0 are falsy; objects are truthy
Truthy(v) ==
    IF IsStr(v) THEN v.s # <<>>
    ELSE IF IsNum(v) THEN v.n # 0
    ELSE IsObj(v)

DigitChars == <<"0", "1", "2", "3", "4", "5", "6", "7", "8", "9">>

RECURSIVE NumToChars(_)
\* Number.prototype.toString for a natural number
NumToChars(k) ==
    IF k < 10 THEN <<DigitChars[k + 1]>>
    ELSE NumToChars(k \div 10) \o <<DigitChars[(k % 10) + 1]>>

\* The string a DOM setter (textContent, value, title, ...) stores for a value
ToDomString(v) ==
    IF IsStr(v) THEN v.s
    ELSE IF IsNum(v) THEN NumToChars(v.n)
    ELSE IF IsObj(v) THEN
        <<"[", "o", "b", "j", "e", "c", "t", " ", "O", "b", "j", "e", "c", "t", "]">>
    ELSE <<"u", "n", "d", "e", "f", "i", "n", "e", "d">>

\* Index of the first occurrence of pat in s at or after position i, 0 if none
RECURSIVE IndexFrom(_, _, _)
IndexFrom(s, pat, i) ==
    IF i + Len(pat) - 1 > Len(s) THEN 0
    ELSE IF SubSeq(s, i, i + Len(pat) - 1) = pat THEN i
    ELSE IndexFrom(s, pat, i + 1)

\* String.prototype.split with a non-empty separator
RECURSIVE Split(_, _)
Split(s, sep) ==
    LET i == IndexFrom(s, sep, 1)
    IN  IF i = 0 THEN <<s>>
        ELSE <<SubSeq(s, 1, i - 1)>> \o Split(SubSeq(s, i + Len(sep), Len(s)), sep)

\* String.prototype.replace with a string pattern: the first occurrence only
ReplaceFirst(s, pat, by) ==
    LET i == IndexFrom(s, pat, 1)
    IN  IF i = 0 THEN s
        ELSE SubSeq(s, 1, i - 1) \o by \o SubSeq(s, i + Len(pat), Len(s))

\* Position (1-based) of a one-digit array index, 0 if prop is not one
DigitIndex(prop) ==
    IF Len(prop) = 1 /\ \E d \in 1..10 : DigitChars[d] = prop[1]
    THEN CHOOSE d \in 1..10 : DigitChars[d] = prop[1]
    ELSE 0

LengthName == <<"l", "e", "n", "g", "t", "h">>

\* current[prop] for a truthy current.  An object yields its own property
\* (the property names drawn here are never those of Object.prototype); a
\* string yields its length and its characters.
GetProp(current, prop) ==
    IF IsObj(current) THEN
        IF prop \in DOMAIN current.o THEN current.o[prop] ELSE Undefined
    ELSE IF IsStr(current) THEN
        IF prop = LengthName THEN Num(Len(current.s))
        ELSE IF DigitIndex(prop) # 0 /\ DigitIndex(prop) <= Len(current.s)
             THEN Str(<<current.s[DigitIndex(prop)]>>)
        ELSE Undefined
    ELSE Undefined

\* The reducer of getNestedTranslation
ReduceStep(current, prop) ==
    IF Truthy(current) /\ GetProp(current, prop) # Undefined
    THEN GetProp(current, prop)
    ELSE Undefined

RECURSIVE Reduce(_, _)
\* Array.prototype.reduce with an initial value
Reduce(acc, props) ==
    IF props = <<>> THEN acc
    ELSE Reduce(ReduceStep(acc, Head(props)), Tail(props))

getNestedTranslation(obj, path) == Reduce(Obj(obj), Split(path, <<".">>))

\* window.i18n.t
t(key) ==
    LET r == getNestedTranslation(translations, key)
    IN  IF Truthy(r) THEN r ELSE Str(key)

-----------------------------------------------------------------------------
(* The document.                                                           *)
(*                                                                         *)
(* An element is a record.  Its markup: tag, type, key (the data-i18n      *)
(* attribute: <<>> absent, <<chars>> present), phKey (data-i18n-placeholder *)
(* likewise), titleMarker (data-i18n-title present), ariaMarker            *)
(* (data-i18n-aria-label present), inSelect (an option of a select).  What *)
(* the code writes: text, value (hasValue: the value attribute is          *)
(* present), placeholder, title, aria.                                     *)

MetaName == <<"m", "e", "t", "a">>

TitleName == <<"t", "i", "t", "l", "e">>

DescriptionName == <<"d", "e", "s", "c", "r", "i", "p", "t", "i", "o", "n">>

IndexName == <<"i", "n", "d", "e", "x">>

IndexHtml == <<"i", "n", "d", "e", "x", ".", "h", "t", "m", "l">>

DotHtml == <<".", "h", "t", "m", "l">>

\* getAttribute: null (falsy) when the attribute is absent
HasAttr(attr) == attr # <<>>

AttrValue(attr) == attr[1]

\* !key for a getAttribute result: null and "" are falsy
NoKey(attr) == ~HasAttr(attr) \/ AttrValue(attr) = <<>>

getPageName(pathname) ==
    LET parts == Split(pathname, <<"/">>)
        popped == parts[Len(parts)]
        filename == IF popped = <<>> THEN IndexHtml ELSE popped
    IN  IF filename = IndexHtml \/ filename = <<>> \/ filename = <<"/">>
        THEN IndexName
        ELSE ReplaceFirst(filename, DotHtml, <<>>)

\* translateElement, lines 48-54: the placeholder
translatePlaceholder(tr, el) ==
    IF NoKey(el.phKey) THEN el
    ELSE LET v == getNestedTranslation(tr, AttrValue(el.phKey))
         IN  IF v # Undefined THEN [el EXCEPT !.placeholder = ToDomString(v)]
             ELSE el

\* The default branch appending to the text (textContent +=)
translateMain_appending(tr, el) ==
    IF NoKey(el.key) THEN el
    ELSE
      LET v == getNestedTranslation(tr, AttrValue(el.key))
          txt == ToDomString(v)
      IN  IF v = Undefined THEN el
          ELSE IF el.tag = "INPUT" /\ el.type \in {"submit", "button"}
               THEN [el EXCEPT !.value = txt, !.text = txt]
          ELSE IF el.tag = "BUTTON"
               THEN IF el.hasValue
                    THEN [el EXCEPT !.text = txt, !.value = txt]
                    ELSE [el EXCEPT !.text = txt]
          ELSE IF el.titleMarker THEN [el EXCEPT !.title = txt]
          ELSE IF el.ariaMarker THEN [el EXCEPT !.aria = txt]
          ELSE [el EXCEPT !.text = @ \o txt]

\* translateElement, lines 57-77: the main translation
translateMain(tr, el) ==
    IF NoKey(el.key) THEN el
    ELSE
      LET v == getNestedTranslation(tr, AttrValue(el.key))
          txt == ToDomString(v)
      IN  IF v = Undefined THEN el
          ELSE IF el.tag = "INPUT" /\ el.type \in {"submit", "button"}
               THEN [el EXCEPT !.value = txt, !.text = txt]
          ELSE IF el.tag = "BUTTON"
               THEN IF el.hasValue
                    THEN [el EXCEPT !.text = txt, !.value = txt]
                    ELSE [el EXCEPT !.text = txt]
          ELSE IF el.titleMarker THEN [el EXCEPT !.title = txt]
          ELSE IF el.ariaMarker THEN [el EXCEPT !.aria = txt]
          ELSE [el EXCEPT !.text = txt]

translateElement(tr, el) == translateMain(tr, translatePlaceholder(tr, el))

\* translatePage, lines 113-119: the options of a select
translateOption(tr, el) ==
    IF el.tag = "OPTION" /\ el.inSelect /\ HasAttr(el.key)
    THEN LET v == getNestedTranslation(tr, AttrValue(el.key))
         IN  IF v # Undefined THEN [el EXCEPT !.text = ToDomString(v)] ELSE el
    ELSE el

\* What the three querySelectorAll loops of translatePage do to one element
translateVisited(tr, el) ==
    LET e1 == IF HasAttr(el.key) THEN translateElement(tr, el) ELSE el
        e2 == IF HasAttr(el.phKey) THEN translateElement(tr, e1) ELSE e1
    IN  translateOption(tr, e2)

\* a && a[p]
AndProp(a, p) == IF Truthy(a) THEN GetProp(a, p) ELSE a

\* translations.meta && translations.meta[pageName] && ...[field]
PageMeta(tr, pageName, field) ==
    AndProp(AndProp(AndProp(Obj(tr), MetaName), pageName), field)

\* translations.meta && translations.meta.title
GlobalTitle(tr) == AndProp(AndProp(Obj(tr), MetaName), TitleName)

translatePage(tr, lang, d) ==
    LET pageName == getPageName(d.path)
        desc == PageMeta(tr, pageName, DescriptionName)
        ptitle == PageMeta(tr, pageName, TitleName)
        gtitle == GlobalTitle(tr)
    IN  [d EXCEPT
           !.lang = lang,
           !.desc = IF d.hasMeta /\ Truthy(desc) THEN ToDomString(desc) ELSE @,
           !.title = IF Truthy(ptitle) THEN ToDomString(ptitle)
                     ELSE IF Truthy(gtitle) THEN ToDomString(gtitle)
                     ELSE @,
           !.els = [i \in DOMAIN d.els |-> translateVisited(tr, d.els[i])]]

-----------------------------------------------------------------------------
(* The inputs: pages and locale files the behaviours are run on.           *)

KeyA == <<"a">>

KeyNH == <<"n", ".", "h">>

KeyN == <<"n">>

KeyP == <<"p">>

KeyALength == <<"a", ".", "l", "e", "n", "g", "t", "h">>

Raw == <<"R">>

\* An element as the markup gives it
Element(tag, type, key, phKey, hasValue, titleMarker, ariaMarker) ==
    [tag |-> tag, type |-> type, key |-> key, phKey |-> phKey,
     hasValue |-> hasValue, titleMarker |-> titleMarker,
     ariaMarker |-> ariaMarker, inSelect |-> tag = "OPTION",
     text |-> Raw, value |-> IF hasValue THEN Raw ELSE <<>>,
     placeholder |-> <<>>, title |-> <<>>, aria |-> <<>>]

\* One element for each case translateElement and translatePage tell apart
PageElements ==
    << Element("SPAN", "", <<KeyA>>, <<>>, FALSE, FALSE, FALSE),
       Element("SPAN", "", <<KeyNH>>, <<>>, FALSE, FALSE, FALSE),
       Element("SPAN", "", <<KeyN>>, <<>>, FALSE, FALSE, FALSE),
       Element("SPAN", "", <<KeyALength>>, <<>>, FALSE, FALSE, FALSE),
       Element("INPUT", "submit", <<KeyA>>, <<>>, TRUE, FALSE, FALSE),
       Element("INPUT", "button", <<KeyNH>>, <<>>, FALSE, TRUE, FALSE),
       Element("INPUT", "text", <<KeyA>>, <<KeyP>>, FALSE, FALSE, FALSE),
       Element("INPUT", "text", <<>>, <<KeyP>>, FALSE, FALSE, FALSE),
       Element("TEXTAREA", "", <<<<>>>>, <<KeyNH>>, FALSE, FALSE, FALSE),
       Element("BUTTON", "submit", <<KeyA>>, <<>>, FALSE, FALSE, FALSE),
       Element("BUTTON", "submit", <<KeyNH>>, <<>>, TRUE, TRUE, FALSE),
       Element("A", "", <<KeyA>>, <<>>, FALSE, TRUE, FALSE),
       Element("A", "", <<KeyNH>>, <<>>, FALSE, TRUE, TRUE),
       Element("A", "", <<KeyP>>, <<>>, FALSE, FALSE, TRUE),
       Element("OPTION", "", <<KeyP>>, <<>>, TRUE, FALSE, FALSE),
       Element("OPTION", "", <<<<>>>>, <<>>, FALSE, FALSE, FALSE) >>

\* location.pathname of the pages
Paths ==
    { <<"/">>,
      <<"/", "i", "n", "d", "e", "x", ".", "h", "t", "m", "l">>,
      <<"/", "a", ".", "h", "t", "m", "l">>,
      <<"/", "s", "/", "a">> }

\* The document as parsed from the markup of a page
Page(path, hasMeta, els) ==
    [path |-> path, hasMeta |-> hasMeta, lang |-> "",
     title |-> Raw, desc |-> IF hasMeta THEN Raw ELSE <<>>,
     els |-> els]

\* The page the translator's behaviours are run on
HomePage ==
    Page(<<"/">>, TRUE, <<PageElements[1], PageElements[7], PageElements[11]>>)

\* Locale files: JSON objects of strings and nested objects
Empty == <<>>

LocaleFull ==
    (<<"a">> :> Str(<<"x">>)) @@
    (<<"n">> :> Obj(<<"h">> :> Str(<<"y">>))) @@
    (<<"p">> :> Str(<<"z">>)) @@
    (<<>> :> Str(<<"e">>)) @@
    (MetaName :> Obj((IndexName :> Obj((TitleName :> Str(<<"T">>)) @@
                                       (DescriptionName :> Str(<<"D">>)))) @@
                     (<<"a">> :> Obj(TitleName :> Str(<<"U">>))) @@
                     (TitleName :> Str(<<"G">>))))

LocaleSparse ==
    (<<"a">> :> Str(<<>>)) @@
    (<<"n">> :> Obj(<<"h">> :> Str(<<"w">>))) @@
    (MetaName :> Obj(TitleName :> Str(<<"H">>)))

LocaleFlat ==
    (<<"a">> :> Str(<<"v", "v">>)) @@
    (<<"n">> :> Str(<<"s">>)) @@
    (<<"p">> :> Str(<<>>)) @@
    (MetaName :> Obj((IndexName :> Obj((TitleName :> Str(<<>>)) @@
                                       (DescriptionName :> Str(<<"E">>)))) @@
                     (<<"a">> :> Obj(DescriptionName :> Str(<<"F">>)))))

LocaleOther ==
    (<<"a">> :> Str(<<"q">>)) @@
    (<<"n">> :> Obj(<<"h">> :> Str(<<"r">>))) @@
    (<<"p">> :> Str(<<"k">>)) @@
    (<<>> :> Str(<<"f">>)) @@
    (MetaName :> Obj((IndexName :> Obj((TitleName :> Str(<<"I">>)) @@
                                       (DescriptionName :> Str(<<"J">>)))) @@
                     (<<"a">> :> Obj(TitleName :> Str(<<"K">>))) @@
                     (TitleName :> Str(<<"L">>))))

Catalogue == {Empty, LocaleFull, LocaleSparse, LocaleFlat, LocaleOther}

\* Keys handed to window.i18n.t
LookupKeys ==
    { <<>>, KeyA, KeyN, KeyNH, KeyP, KeyALength,
      <<"n", ".", "h", ".", "0">>, <<"n", ".", "h", ".", "1">>,
      <<"a", ".", "0">>, <<"n", ".", "x">>, <<"x">>, <<"a", ".">>, <<".", "a">>,
      <<"m", "e", "t", "a", ".", "t", "i", "t", "l", "e">>,
      <<"m", "e", "t", "a", ".", "i", "n", "d", "e", "x", ".", "t", "i", "t", "l", "e">>,
      <<"m", "e", "t", "a", ".", "a">>, <<"m", "e", "t", "a">>,
      <<"p", ".", "0">>, <<"p", ".", "l", "e", "n", "g", "t", "h">>,
      <<"n", ".", "l", "e", "n", "g", "t", "h">>, <<".">>,
      <<"n", ".", "h", ".">>, <<"a", "a">>, <<"h">>,
      <<"m", "e", "t", "a", ".", "i", "n", "d", "e", "x">>,
      <<"a", ".", "0", ".", "0">> }

-----------------------------------------------------------------------------
(* The translator: init, changeLanguage and the settling of a fetch.       *)
(*                                                                         *)
(* JavaScript runs each piece of code to its next await.  changeLanguage   *)
(* and init run up to "await fetch(...)" in one step.  What follows the    *)
(* settling of a fetch (the assignment to translations, the return to the  *)
(* caller, translatePage, scrollTo) awaits nothing that a later task       *)
(* resolves, so it runs within one microtask checkpoint: one step.         *)

Langs == {"vi", "en"}

\* line 6: localStorage.getItem('lang') || 'vi'
InitialLang(stored) ==
    IF stored = <<>> \/ stored[1] = "" THEN "vi" ELSE stored[1]

\* createLanguageSwitcher: the buttons created with class active
createLanguageSwitcher(lang) == {b \in Langs : lang = b}

\* The .lang-btn buttons in the document
Buttons == IF switcher \in {"created", "existing"} THEN Langs ELSE {}

\* The guard left out
SameLanguage_absent(lang) == FALSE

\* line 151: the guard of changeLanguage
SameLanguage(lang) == lang = currentLang

\* The write left out
setItem_absent(lang) == storage

\* line 154: localStorage.setItem('lang', lang)
setItem(lang) == <<lang>>

\* classList.add on the matching button, the others left as they are
ToggleActive_addOnly(lang) == active \cup {b \in Buttons : b = lang}

\* lines 157-159: classList.toggle('active', data-lang === lang) on every button
ToggleActive(lang) == {b \in Buttons : b = lang}

\* The mapping cleared when the load fails
loadTranslations_clearing(lang, outcome) ==
    IF outcome = "ok" THEN locales[lang] ELSE Empty

\* The new mapping merged into the old one
loadTranslations_merging(lang, outcome) ==
    IF outcome = "ok" THEN locales[lang] @@ translations ELSE translations

\* loadTranslations: the value of translations when the fetch has settled.
\* outcome: "ok", or what failed: "network" (fetch rejects), "status"
\* (!response.ok), "parse" (response.json rejects).  The catch covers all.
loadTranslations(lang, outcome) ==
    IF outcome = "ok" THEN locales[lang] ELSE translations

Outcomes == {"ok", "network", "status", "parse"}

Fetch(id, lang, by) == [id |-> id, lang |-> lang, by |-> by]

Event(op, by, lang, ok, id, noop) ==
    [op |-> op, by |-> by, lang |-> lang, ok |-> ok, id |-> id, noop |-> noop]

lookupVars == <<hist, tKey, tResult>>

\* init, lines 123-145: the switcher, then the fetch of the current language
InitRun ==
    /\ initPc = "idle"
    /\ initPc' = "loading"
    /\ switcher' = IF switcher = "footer" THEN "created" ELSE switcher
    /\ active' = IF switcher = "footer" THEN createLanguageSwitcher(currentLang)
                 ELSE active
    /\ nFetch' = nFetch + 1
    /\ inflight' = inflight \cup {Fetch(nFetch + 1, currentLang, "init")}
    /\ ev' = Event("init", "init", currentLang, TRUE, nFetch + 1, FALSE)
    /\ UNCHANGED <<currentLang, translations, storage, locales, dom, calls,
                   nWrites, nScroll, nRender, lastChange, anyFail, installed,
                   uncaught, earlyCall, lookupVars>>

\* changeLanguage, lines 150-162: up to the fetch
ChangeLanguage(lang) ==
    /\ calls < MaxCalls
    /\ calls' = calls + 1
    /\ earlyCall' = (earlyCall \/ initPc = "idle")
    /\ IF SameLanguage(lang)
       THEN /\ ev' = Event("call", "change", lang, TRUE, 0, TRUE)
            /\ UNCHANGED <<currentLang, storage, nWrites, active, nFetch,
                           inflight, lastChange>>
       ELSE /\ currentLang' = lang
            /\ storage' = setItem(lang)
            /\ nWrites' = nWrites + 1
            /\ active' = ToggleActive(lang)
            /\ nFetch' = nFetch + 1
            /\ inflight' = inflight \cup {Fetch(nFetch + 1, lang, "change")}
            /\ lastChange' = nFetch + 1
            /\ ev' = Event("call", "change", lang, TRUE, nFetch + 1, FALSE)
    /\ UNCHANGED <<translations, locales, switcher, dom, initPc, nScroll,
                   nRender, anyFail, installed, uncaught, lookupVars>>

\* The fetch f settles, successfully or by one of the failures: the rest of
\* loadTranslations, then of its caller (lines 146, 163-166)
Settle(f, ok) ==
    /\ f \in inflight
    /\ inflight' = inflight \ {f}
    /\ translations' \in
          {loadTranslations(f.lang, outcome) :
               outcome \in {o \in Outcomes : (o = "ok") = ok}}
    /\ dom' = translatePage(translations', currentLang, dom)
    /\ nRender' = nRender + 1
    /\ nScroll' = IF f.by = "change" THEN nScroll + 1 ELSE nScroll
    /\ initPc' = IF f.by = "init" THEN "done" ELSE initPc
    /\ installed' = IF ok THEN installed \cup {f.lang} ELSE installed
    /\ anyFail' = (anyFail \/ ~ok)
    /\ ev' = Event("done", f.by, f.lang, ok, f.id, FALSE)
    /\ UNCHANGED <<currentLang, storage, locales, switcher, active, calls,
                   nFetch, nWrites, lastChange, uncaught, earlyCall,
                   lookupVars>>

\* The locale files served for vi and en
LocalePairs ==
    { [vi |-> LocaleFull, en |-> LocaleOther],
      [vi |-> LocaleFlat, en |-> LocaleSparse] }

\* What localStorage holds under 'lang' when the script is loaded
StoredValues == {<<>>, <<"">>, <<"vi">>, <<"en">>}

Init ==
    /\ storage \in StoredValues
    /\ currentLang = InitialLang(storage)
    /\ translations = Empty
    /\ locales \in LocalePairs
    /\ inflight = {}
    /\ switcher \in {"none", "footer", "existing"}
    /\ active \in IF switcher = "existing" THEN SUBSET Langs ELSE {{}}
    /\ dom = HomePage
    /\ initPc = "idle"
    /\ calls = 0
    /\ nFetch = 0
    /\ nWrites = 0
    /\ nScroll = 0
    /\ nRender = 0
    /\ lastChange = 0
    /\ ev = Event("start", "", "", TRUE, 0, FALSE)
    /\ anyFail = FALSE
    /\ installed = {}
    /\ uncaught = FALSE
    /\ earlyCall = FALSE
    /\ hist = <<>>
    /\ tKey = <<>>
    /\ tResult = Undefined

Next ==
    \/ InitRun
    \/ \E lang \in Langs : ChangeLanguage(lang)
    \/ \E f \in inflight, ok \in BOOLEAN : Settle(f, ok)

Spec == Init /\ [][Next]_vars

-----------------------------------------------------------------------------
(* Round trips: languages loaded and rendered one after the other, each    *)
(* load settling before the next one starts, on every page and every pair  *)
(* of locale files of the catalogue.                                       *)

\* A language made current, loaded and rendered, its fetch succeeding before
\* anything else happens (lines 153-154 and 162-163; for the first language,
\* lines 145-146 of init).  The guard of line 151 is not applied: a language
\* loaded twice in a row is rendered twice.
LoadAndRender(lang) ==
    /\ Len(hist) < MaxLoads
    /\ hist' = Append(hist, lang)
    /\ currentLang' = lang
    /\ storage' = setItem(lang)
    /\ translations' = loadTranslations(lang, "ok")
    /\ dom' = translatePage(translations', lang, dom)
    /\ nRender' = nRender + 1
    /\ ev' = Event("done", "change", lang, TRUE, Len(hist) + 1, FALSE)
    /\ UNCHANGED <<locales, inflight, switcher, active, initPc, calls, nFetch,
                   nWrites, nScroll, lastChange, anyFail, installed,
                   uncaught, earlyCall, tKey, tResult>>

RoundTripInit ==
    /\ storage = <<>>
    /\ currentLang = InitialLang(storage)
    /\ translations = Empty
    /\ locales \in [Langs -> Catalogue]
    /\ inflight = {}
    /\ switcher = "none"
    /\ active = {}
    /\ dom \in {Page(path, hasMeta, PageElements) :
                    path \in Paths, hasMeta \in BOOLEAN}
    /\ initPc = "idle"
    /\ calls = 0
    /\ nFetch = 0
    /\ nWrites = 0
    /\ nScroll = 0
    /\ nRender = 0
    /\ lastChange = 0
    /\ ev = Event("start", "", "", TRUE, 0, FALSE)
    /\ anyFail = FALSE
    /\ installed = {}
    /\ uncaught = FALSE
    /\ earlyCall = FALSE
    /\ hist = <<>>
    /\ tKey = <<>>
    /\ tResult = Undefined

RoundTripNext == \E lang \in Langs : LoadAndRender(lang)

RoundTripSpec == RoundTripInit /\ [][RoundTripNext]_vars

-----------------------------------------------------------------------------
(* Lookups: window.i18n.t on every mapping of the catalogue.               *)

\* A call of window.i18n.t
Lookup(key) ==
    /\ tKey' = key
    /\ tResult' = t(key)
    /\ ev' = Event("t", "", "", TRUE, 0, FALSE)
    /\ UNCHANGED <<currentLang, translations, storage, locales, inflight,
                   switcher, active, dom, initPc, calls, nFetch, nWrites,
                   nScroll, nRender, lastChange, anyFail, installed, uncaught,
                   earlyCall, hist>>

LookupInit ==
    /\ storage = <<>>
    /\ currentLang = InitialLang(storage)
    /\ translations \in Catalogue
    /\ locales = [l \in Langs |-> translations]
    /\ inflight = {}
    /\ switcher = "none"
    /\ active = {}
    /\ dom = HomePage
    /\ initPc = "idle"
    /\ calls = 0
    /\ nFetch = 0
    /\ nWrites = 0
    /\ nScroll = 0
    /\ nRender = 0
    /\ lastChange = 0
    /\ ev = Event("start", "", "", TRUE, 0, FALSE)
    /\ anyFail = FALSE
    /\ installed = {}
    /\ uncaught = FALSE
    /\ earlyCall = FALSE
    /\ hist = <<>>
    /\ tKey = <<>>
    /\ tResult = Undefined

LookupNext == \E key \in LookupKeys : Lookup(key)

LookupSpec == LookupInit /\ [][LookupNext]_vars

-----------------------------------------------------------------------------
(* Properties.                                                             *)

\* What a render leaves to read: everything of the document but its lang
Rendered(d) == [d EXCEPT !.lang = ""]

\* A button is active if and only if its data-lang is the current code
Consistent == \A b \in Buttons : (b \in active) <=> (b = currentLang)

\* C1: a changeLanguage call whose code is the current language code changes
\* nothing: no fetch, no storage write, the same current code, mapping,
\* active buttons and rendered page, also while other loads are in flight.
C1_SameCodeIsNoOp ==
    [][(calls' = calls + 1 /\ ev'.lang = currentLang)
         => UNCHANGED <<currentLang, translations, storage, inflight, switcher,
                        active, dom, nFetch, nWrites, nScroll, nRender>>]_vars

C1_Witness ==
    /\ ev.op = "call"
    /\ ev.noop
    /\ ev.lang = currentLang
    /\ nFetch = lastChange
    /\ lastChange # 0
    /\ Cardinality(inflight) = 2

\* C2: when the fetch of a load (of init or of changeLanguage) fails, by
\* transport error, status or unparsable payload, the load still completes,
\* without an uncaught error, and the mapping and everything rendered are
\* what they were before.
C2_FailureKeepsState ==
    [][(ev'.op = "done" /\ ~ev'.ok /\ inflight' # inflight)
         => /\ translations' = translations
            /\ Rendered(dom') = Rendered(dom)
            /\ nRender' = nRender + 1
            /\ ~uncaught']_vars

C2_Witness ==
    /\ ev.op = "done"
    /\ ~ev.ok
    /\ translations # Empty
    /\ Rendered(dom) # Rendered(HomePage)
    /\ inflight # {}

\* The calls of changeLanguage came after init had run, as clicks do
ClicksOnly == ~earlyCall

\* C3 as stated: when a changeLanguage("en") whose fetch succeeded completes,
\* the stored value is "en" and exactly one button is active (read on a page
\* that has the buttons, for clicks made after init has run).
C3_AsStated ==
    (ev.op = "done" /\ ev.by = "change" /\ ev.lang = "en" /\ ev.ok
       /\ Buttons # {} /\ ClicksOnly)
        => (storage = <<"en">> /\ Cardinality(active) = 1)

\* C3 amended: when a changeLanguage("en") whose fetch succeeded completes,
\* the stored value is the current language code, which is "en" unless
\* changeLanguage was called with another code in the meantime; and on a page
\* with switcher buttons exactly one is active, that of the current code.
C3_StoredIsCurrent ==
    (ev.op = "done" /\ ev.by = "change" /\ ev.lang = "en" /\ ev.ok)
        => /\ storage = <<currentLang>>
           /\ (ev.id = lastChange => storage = <<"en">>)
           /\ (Buttons # {} => (Cardinality(active) = 1 /\ active = {currentLang}))

C3_Witness ==
    /\ ev.op = "done" /\ ev.by = "change" /\ ev.lang = "en" /\ ev.ok
    /\ ev.id = lastChange
    /\ storage = <<"en">>
    /\ active = {"en"}
    /\ initPc = "loading"

\* C4 as stated: after any change operation completes, a button is active if
\* and only if its data-lang is the current code (read for calls made after
\* init has run).
C4_AsStated ==
    (ev.by = "change" /\ (ev.op = "done" \/ ev.noop) /\ ClicksOnly)
        => Consistent

\* C4 amended: the buttons are consistent with the current code whenever the
\* switcher was created by init, and, for a switcher already in the footer,
\* once a changeLanguage call has changed the language; the outcome of the
\* fetch does not matter.
C4_ConsistentAfterChange ==
    (switcher = "created" \/ (switcher = "existing" /\ lastChange # 0))
        => Consistent

C4_Witness ==
    /\ ev.op = "done" /\ ev.by = "change" /\ ~ev.ok
    /\ switcher = "existing"
    /\ active = {currentLang}
    /\ ev.lang # currentLang

\* C5: the mapping in memory is empty, as long as no load has succeeded, or
\* is exactly the mapping of one language's locale file; never a mix.
C5_WholeMapping ==
    /\ installed = {} => translations = Empty
    /\ installed # {} => \E l \in installed : translations = locales[l]

C5_Witness ==
    /\ ev.op = "done" /\ ev.ok
    /\ installed = Langs
    /\ anyFail
    /\ inflight # {}

\* The page as its markup gives it, before any render
Markup == Page(dom.path, dom.hasMeta, PageElements)

\* The output of rendering language a once, from the markup
RenderedOnce(a) == Rendered(translatePage(locales[a], a, Markup))

\* The translation keys and placeholder keys of the page's elements
PageKeys ==
    {AttrValue(dom.els[i].key) : i \in {j \in DOMAIN dom.els : HasAttr(dom.els[j].key)}}
    \cup
    {AttrValue(dom.els[i].phKey) : i \in {j \in DOMAIN dom.els : HasAttr(dom.els[j].phKey)}}

SuppliesTitle(tr) ==
    Truthy(PageMeta(tr, getPageName(dom.path), TitleName)) \/ Truthy(GlobalTitle(tr))

SuppliesDescription(tr) ==
    Truthy(PageMeta(tr, getPageName(dom.path), DescriptionName))

\* Mapping ma writes whatever mapping mb writes on this page
Covers(ma, mb) ==
    /\ \A k \in PageKeys :
          getNestedTranslation(mb, k) # Undefined
              => getNestedTranslation(ma, k) # Undefined
    /\ SuppliesTitle(mb) => SuppliesTitle(ma)
    /\ SuppliesDescription(mb) => SuppliesDescription(ma)

\* C6 as stated: for any two mappings, rendering A, then B, then A again
\* gives the rendered output of rendering A once from the markup.
C6_AsStated ==
    \A a, b \in Langs : hist = <<a, b, a>> => Rendered(dom) = RenderedOnce(a)

\* C6 amended: rendering A, then B, then A again gives the output of
\* rendering A once from the markup, provided A resolves every key of the
\* page that B resolves and supplies a title and a description whenever B
\* does.
C6_RoundTripWhenCovered ==
    \A a, b \in Langs :
        (hist = <<a, b, a>> /\ Covers(locales[a], locales[b]))
            => Rendered(dom) = RenderedOnce(a)

C6_Witness ==
    /\ hist = <<"vi", "en", "vi">>
    /\ locales["vi"] = LocaleFull
    /\ locales["en"] = LocaleFlat
    /\ Covers(locales["vi"], locales["en"])
    /\ Rendered(dom) # Rendered(Markup)
    /\ Rendered(dom) # RenderedOnce("en")

\* Own-property resolution of a path: a step needs an object having the name
RECURSIVE Descend(_, _)
Descend(node, props) ==
    IF props = <<>> THEN node
    ELSE IF IsObj(node) /\ Head(props) \in DOMAIN node.o
         THEN Descend(node.o[Head(props)], Tail(props))
    ELSE Undefined

Addressed(key) == Descend(Obj(translations), Split(key, <<".">>))

\* C7 as stated: t(key) is the leaf string that key addresses in the loaded
\* mapping, the empty string included; it is key itself when key does not
\* resolve; it is never undefined.
C7_AsStated ==
    ev.op = "t"
        => /\ IsStr(Addressed(tKey)) => tResult = Addressed(tKey)
           /\ Addressed(tKey) = Undefined => tResult = Str(tKey)
           /\ tResult # Undefined

\* C8 as stated: no two fetches for the same language are in flight at once,
\* for clicks interleaved with the initial load that init started.
C8_AsStated ==
    ClicksOnly => \A f, g \in inflight : f.lang = g.lang => f = g

\* C8 amended: a fetch started by changeLanguage never directly follows a
\* fetch for the same code; of two fetches for one code in flight, the later,
\* if changeLanguage started it, was started after a fetch for another code.
C8_NeverBackToBack ==
    \A f, g \in inflight :
        (g.by = "change" /\ f.lang = g.lang /\ f.id < g.id) => g.id >= f.id + 2

C8_Witness ==
    \E f, g \in inflight :
        /\ f.by = "change" /\ g.by = "change"
        /\ f.lang = g.lang
        /\ g.id = f.id + 2

\* C9 as stated: when the fetches all succeed, in whatever order they settle,
\* then once none is in flight the mapping in memory is that of the current
\* language code.
C9_AsStated ==
    (inflight = {} /\ ~anyFail /\ initPc = "done" /\ ClicksOnly)
        => translations = locales[currentLang]

\* C10 as stated: once changeLanguage has set the current code, translatePage
\* never runs (setting the document's lang to that code) before the mapping
\* of that code has been installed.
C10_AsStated ==
    [][(nRender' = nRender + 1 /\ lastChange # 0 /\ ClicksOnly)
         => currentLang' \in installed']_vars

=============================================================================
